---- MODULE Spec2Model ----
(***************************************************************************)
(* A model of trackmania_rl/agents/noisy_iqn_pal2.py: the dueling,         *)
(* quantile-conditioned value network (Agent) and its Trainer              *)
(* (train_on_batch, get_exploration_action).                               *)
(*                                                                         *)
(* Numbers.  The program computes in floating point; the model computes    *)
(* the same expressions in exact arithmetic over small integers and keeps  *)
(* every quotient as a numerator over a stated denominator:                *)
(*   - a quantile fraction tau is held as its numerator over TauDen;       *)
(*   - a row of Q is held as its numerators over n_actions (mean over      *)
(*     the action axis divides by n_actions);                              *)
(*   - a quantile average is held as its numerators over                   *)
(*     n_actions * iqn_n;                                                  *)
(*   - a target or a gathered prediction is held as its numerator over     *)
(*     TScale = n_actions * iqn_n * gamma.den ^ n_steps;                   *)
(*   - a loss is held as a record [num, den]; den = 0 is the value the     *)
(*     program gets from a division by zero (NaN).                         *)
(* Tensors are functions on 0 .. n-1, flat exactly as the program's        *)
(* (batch_size * iqn_n, .) tensors are: row r = j * batch_size + b.        *)
(***************************************************************************)
EXTENDS Integers, Sequences, FiniteSets, TLC

(***************************************************************************)
(* Bounds of the model.                                                    *)
(***************************************************************************)
BatchSize == 2
IqnN == 2
IqnK == 2
NActions == 2
TauDen == 3

(***************************************************************************)
(* Arithmetic helpers.                                                     *)
(***************************************************************************)
RECURSIVE SumTo(_, _)
\* f[0] + ... + f[n-1]: torch.sum over one axis.
SumTo(f, n) == IF n <= 0 THEN 0 ELSE f[n - 1] + SumTo(f, n - 1)

RECURSIVE Pow(_, _)
\* pow(x, n) for a natural n.
Pow(x, n) == IF n <= 0 THEN 1 ELSE x * Pow(x, n - 1)

Abs(x) == IF x < 0 THEN -x ELSE x

Min2(x, y) == IF x <= y THEN x ELSE y

\* The tensor f, computed once: the comparison makes TLC evaluate every element
\* of f here instead of at each later use of f.
Eval(f) == IF f = f THEN f ELSE f

RECURSIVE MaxTo(_, _)
\* the largest of f[0] .. f[n-1], n >= 1: torch.max over one axis.
MaxTo(f, n) == IF n <= 1 THEN f[0]
               ELSE LET m == MaxTo(f, n - 1) IN IF f[n - 1] > m THEN f[n - 1] ELSE m

\* torch.argmax / np.argmax over one axis: the lowest index holding the maximum.
ArgMax(f, n) == CHOOSE a \in 0 .. (n - 1) :
                    /\ \A c \in 0 .. (n - 1) : f[c] <= f[a]
                    /\ \A c \in 0 .. (a - 1) : f[c] < f[a]

(***************************************************************************)
(* Tensor shape operations, on flat tensors (functions on 0 .. n-1).       *)
(***************************************************************************)
\* x.repeat([n, 1]) of a tensor of len rows: the rows tiled n times.
Repeat(x, len, n) == Eval([r \in 0 .. (n * len - 1) |-> x[r % len]])

\* x.reshape([d0, d1, ...]) of a flat (d0*d1, ...) tensor: [j][b] = x[j*d1 + b].
Reshape(x, d0, d1) == Eval([j \in 0 .. (d0 - 1) |-> [b \in 0 .. (d1 - 1) |-> x[j * d1 + b]]])

\* x.transpose(0, 1) of a (d0, d1, ...) tensor.
Transpose(x, d0, d1) == Eval([b \in 0 .. (d1 - 1) |-> [j \in 0 .. (d0 - 1) |-> x[j][b]]])

\* torch.gather(x, 1, index) with an index of one column: row r reads x[r][index[r]].
Gather(x, index, len) == Eval([r \in 0 .. (len - 1) |-> x[r][index[r]]])

\* torch.mean(x, dim=0) of a (d0, d1, n) tensor, as numerators over d0.
MeanDim0(x, d0, d1, n) ==
    Eval([b \in 0 .. (d1 - 1) |-> [a \in 0 .. (n - 1) |-> SumTo([j \in 0 .. (d0 - 1) |-> x[j][b][a]], d0)]])

(***************************************************************************)
(* Index sets.                                                             *)
(***************************************************************************)
Actions == 0 .. (NActions - 1)

(***************************************************************************)
(* noisy_linear.NoisyLinear: a linear layer whose weight and bias are a    *)
(* mean plus a noise scale times a cached noise sample.  A layer of the    *)
(* model has one input and nout outputs.                                   *)
(***************************************************************************)
\* Sign-preserving square root of a noise draw.
F(x) == LET r == CHOOSE k \in 0 .. Abs(x) : k * k <= Abs(x) /\ (k + 1) * (k + 1) > Abs(x)
        IN  IF x < 0 THEN -r ELSE r

\* One standard draw of the noise generator at position n of its stream.
Gauss(n) == (n % 3) - 1

\* NoisyLinear.reset_noise: fresh factorized noise, cached until the next call.
LayerNoise(z, k, nout) ==
    [eps_in |-> Gauss(z + k), eps_out |-> [o \in 0 .. (nout - 1) |-> Gauss(z + k + o + 1)]]

\* NoisyLinear.forward on the scalar input x.
NoisyLinear(layer, noise, x, nout) ==
    Eval([o \in 0 .. (nout - 1) |->
            (layer.mu_w[o] + layer.sig_w[o] * F(noise.eps_out[o]) * F(noise.eps_in)) * x
            + layer.mu_b[o] + layer.sig_b[o] * F(noise.eps_out[o])])

(***************************************************************************)
(* Agent: the parameters of one network.  Each head is NoisyLinear,        *)
(* LeakyReLU, NoisyLinear (hidden width 1).                                *)
(***************************************************************************)
\* The one-output tensor holding v.
One(v) == [o \in {0} |-> v]

\* The parameter values a network can hold, numbered p.
Weights(p) ==
    [A0 |-> [mu_w |-> One(1), sig_w |-> One(1), mu_b |-> One(p), sig_b |-> One(0)],
     A2 |-> [mu_w  |-> [a \in Actions |-> (a + p) % 2],
             sig_w |-> [a \in Actions |-> 1],
             mu_b  |-> [a \in Actions |-> (2 * (a + 1)) % 3],
             sig_b |-> [a \in Actions |-> a % 2]],
     V0 |-> [mu_w |-> One(1), sig_w |-> One(0), mu_b |-> One(0), sig_b |-> One(1)],
     V2 |-> [mu_w |-> One(1 + p), sig_w |-> One(1), mu_b |-> One(1), sig_b |-> One(0)]]

ParamIds == {0, 1}

ParamSet == {Weights(p) : p \in ParamIds}

\* Seeds of the noise generator at a reset_noise call.
NoiseSeeds == {0, 1}

\* Agent.reset_noise: the four NoisyLinear layers draw fresh noise.
reset_noise(z) ==
    [A0 |-> LayerNoise(z, 0, 1), A2 |-> LayerNoise(z, 1, NActions),
     V0 |-> LayerNoise(z, 2, 1), V2 |-> LayerNoise(z, 3, 1)]

\* torch.nn.LeakyReLU, negative slope 0.01, truncated to an integer.
LeakyReLU(x) == IF x >= 0 THEN x ELSE -((-x) \div 100)

(***************************************************************************)
(* Agent.forward.                                                          *)
(***************************************************************************)
\* tau=None.
None == <<>>

\* Seeds of the generator behind uniform_(0, 1).
TauSeeds == {0, 4, 8}

\* torch.cuda.FloatTensor(len, 1).uniform_(0, 1): len fractions in [0, 1), as
\* numerators over TauDen, drawn from the generator's stream at `seed`.
Uniform(seed, len) ==
    Eval([r \in 0 .. (len - 1) |-> ((seed % TauDen) + r * ((seed \div TauDen) + 1)) % TauDen])

\* img_head((img - 128) / 128): the image encoder's feature of one image.
img_head(img) == img

\* float_feature_extractor((float_inputs - mean) / std): the feature encoder.
float_feature_extractor(float_inputs) == 1 + float_inputs

\* cos(i * pi * tau) for the one harmonic i = 1, in halves, piecewise linear.
CosEmbed(t) == 2 - ((4 * t) \div TauDen)

\* iqn_fc: the deterministic linear layer on the cosine embedding.
iqn_fc(c) == c + 1

\* A_head(concat): NoisyLinear, LeakyReLU, NoisyLinear to n_actions outputs.
A_head(net, x) ==
    NoisyLinear(net.w.A2, net.noise.A2,
                LeakyReLU(NoisyLinear(net.w.A0, net.noise.A0, x, 1)[0]), NActions)

\* V_head(concat): NoisyLinear, LeakyReLU, NoisyLinear to one output.
V_head(net, x) ==
    NoisyLinear(net.w.V2, net.noise.V2,
                LeakyReLU(NoisyLinear(net.w.V0, net.noise.V0, x, 1)[0]), 1)[0]

\* A slip in Dueling: the mean of A is not subtracted.
DuelingNoMean(A, V) == Eval([a \in Actions |-> NActions * V + NActions * A[a]])

\* Q = V + A - A.mean(dim=-1, keepdim=True), one row, as numerators over n_actions.
Dueling(A, V) == Eval([a \in Actions |-> NActions * V + NActions * A[a] - SumTo(A, NActions)])

\* Agent.forward(img, float_inputs, num_quantiles, tau) on a batch of bsz items;
\* `seed` is where the generator stands if tau has to be sampled.  The result
\* holds the locals A, V, Q and the tau returned.
forward(net, img, float_inputs, bsz, num_quantiles, tau, seed) ==
    LET n == bsz * num_quantiles
        concat == Eval([b \in 0 .. (bsz - 1) |-> img_head(img[b]) + float_feature_extractor(float_inputs[b])])
        tau_ == IF tau = None THEN Uniform(seed, n) ELSE tau
        quantile_net == Eval([r \in 0 .. (n - 1) |-> LeakyReLU(iqn_fc(CosEmbed(tau_[r])))])
        tiled == Repeat(concat, bsz, num_quantiles)
        gated == Eval([r \in 0 .. (n - 1) |-> tiled[r] * quantile_net[r]])
        A == Eval([r \in 0 .. (n - 1) |-> A_head(net, gated[r])])
        V == Eval([r \in 0 .. (n - 1) |-> V_head(net, gated[r])])
    IN  [A |-> A, V |-> V, Q |-> Eval([r \in 0 .. (n - 1) |-> Dueling(A[r], V[r])]), tau |-> tau_]

(***************************************************************************)
(* The replay collaborator (ExperienceReplayInterface): what sample can    *)
(* return.  A transition is a `memory` of train_on_batch.                  *)
(***************************************************************************)
ReplayMemory ==
    << [state_img |-> 0, state_float |-> 0, action |-> 0, reward |-> 1, done |-> FALSE,
        next_state_img |-> 1, next_state_float |-> 0],
       [state_img |-> 1, state_float |-> 0, action |-> 1, reward |-> 0, done |-> TRUE,
        next_state_img |-> 0, next_state_float |-> 1],
       [state_img |-> 0, state_float |-> 1, action |-> 1, reward |-> 2, done |-> FALSE,
        next_state_img |-> 1, next_state_float |-> 1] >>

\* The importance weight sample reports for the transition at index idx.
ImportanceWeight(idx) == 1 + (idx % 2)

(***************************************************************************)
(* State.                                                                  *)
(*   cfg        the Trainer's hyperparameter slots                         *)
(*   model      the online Agent: w (means and noise scales), noise        *)
(*   model2     the target Agent                                           *)
(*   pc         where the caller stands: "new" (no Trainer yet), "idle",   *)
(*              inside train_on_batch ("sampled", "selected", "targeted",  *)
(*              "predicted", "stepped"), or just out of it ("returned",    *)
(*              "raised")                                                  *)
(*   frame      the locals of the running train_on_batch call              *)
(*   fwd        the locals of the latest Agent.forward call                *)
(*   bufferLog  the calls this train_on_batch call made to the buffer and  *)
(*              to the optimizer, in order                                 *)
(*   entry      model.w as it was when the train_on_batch call began       *)
(*   evalLast, evalPrev  the two latest get_exploration_action calls since *)
(*              the last train_on_batch call and the last reset_noise      *)
(*              (arguments, tau drawn, result)                             *)
(***************************************************************************)
VARIABLES cfg, model, model2, pc, frame, fwd, bufferLog, entry, evalLast, evalPrev

vars == <<cfg, model, model2, pc, frame, fwd, bufferLog, entry, evalLast, evalPrev>>

NoFrame == [stage |-> "none"]

NoFwd == [A |-> <<>>, V |-> <<>>, Q |-> <<>>, tau |-> <<>>]

NoEval == [called |-> FALSE]

NoCfg == [batch_size |-> 0, iqn_k |-> 0, iqn_n |-> 0, iqn_kappa |-> 0, epsilon |-> 0,
          gamma |-> [num |-> 0, den |-> 1], n_steps |-> 0, AL_alpha |-> 0]

\* Trainer.__init__: every argument is stored as given.
Trainer__init__(batch_size, iqn_k, iqn_n, iqn_kappa, epsilon, gamma, n_steps, AL_alpha) ==
    /\ pc = "new"
    /\ cfg' = [batch_size |-> batch_size, iqn_k |-> iqn_k, iqn_n |-> iqn_n,
               iqn_kappa |-> iqn_kappa, epsilon |-> epsilon, gamma |-> gamma,
               n_steps |-> n_steps, AL_alpha |-> AL_alpha]
    /\ pc' = "idle"
    /\ UNCHANGED <<model, model2, frame, fwd, bufferLog, entry, evalLast, evalPrev>>

\* Hyperparameters of the Trainers the model runs.  epsilon is in percent,
\* gamma a fraction; iqn_kappa and AL_alpha are whole numbers.
BaseCfg == [batch_size |-> BatchSize, iqn_k |-> IqnK, iqn_n |-> IqnN, iqn_kappa |-> 1,
            epsilon |-> 0, gamma |-> [num |-> 1, den |-> 2], n_steps |-> 2, AL_alpha |-> 1]

Configs ==
    { BaseCfg,
      [BaseCfg EXCEPT !.epsilon = 50, !.gamma = [num |-> 1, den |-> 1], !.n_steps = 1,
                      !.iqn_kappa = 2, !.AL_alpha = 0],
      [BaseCfg EXCEPT !.AL_alpha = -1],
      [BaseCfg EXCEPT !.iqn_kappa = 0] }

\* The denominator of targets and gathered predictions.
TScale == NActions * cfg.iqn_n * Pow(cfg.gamma.den, cfg.n_steps)

Init ==
    /\ cfg \in Configs
    /\ model = [w |-> Weights(0), noise |-> reset_noise(0)]
    /\ model2 = [w |-> Weights(1), noise |-> reset_noise(0)]
    /\ pc = "idle"
    /\ frame = NoFrame
    /\ fwd = NoFwd
    /\ bufferLog = <<>>
    /\ entry = model.w
    /\ evalLast = NoEval
    /\ evalPrev = NoEval

(***************************************************************************)
(* Trainer.train_on_batch, piece by piece.                                 *)
(***************************************************************************)
\* q.reshape([iqn_n, batch_size, n_actions]) then torch.mean(q, dim=0): one
\* n_actions-wide estimate per batch item, as numerators over n_actions * iqn_n.
QuantileMean(Q, N, B) == MeanDim0(Reshape(Q, N, B), N, B, NActions)

\* A slip in ValueOf: the column of action 0 instead of the maximum.
ValueOfFirstAction(q, B) == Eval([b \in 0 .. (B - 1) |-> q[b][0]])

\* torch.max(q, keepdim=True, dim=1)[0]: the largest action value of each item.
ValueOf(q, B) == Eval([b \in 0 .. (B - 1) |-> MaxTo(q[b], NActions)])

\* torch.where(condition, x, y), one element.
Where(condition, x, y) == IF condition THEN x ELSE y

\* torch.minimum(v_s - q_s_a, v_stpot - q_stpot_a): the PAL gap of each batch
\* item, as numerators over n_actions * iqn_n.
PalGap(v_s, q_s_a, v_stpot, q_stpot_a, B) ==
    Eval([b \in 0 .. (B - 1) |-> Min2(v_s[b] - q_s_a[b], v_stpot[b] - q_stpot_a[b])])

\* A slip in OutputsTarget: the bootstrap term is added whatever done says.
OutputsTargetNoDone(done, rewards, gamma, n_steps, q_stpot_atpot, AL_alpha, gap, N, B) ==
    LET gd == Pow(gamma.den, n_steps)
        T == NActions * N * gd
        gap_n == Repeat(gap, B, N)
    IN  Eval([r \in 0 .. (N * B - 1) |->
                rewards[r] * T + Pow(gamma.num, n_steps) * N * q_stpot_atpot[r]
                - AL_alpha * gd * gap_n[r]])

\* outputs_target before its reshape: torch.where(done, rewards, rewards +
\* pow(gamma, n_steps) * q_stpot_atpot) - AL_alpha * gap.repeat([iqn_n, 1]), as
\* numerators over n_actions * iqn_n * gamma.den ^ n_steps.  rewards, done and
\* q_stpot_atpot have batch_size * iqn_n rows, gap has batch_size rows.
OutputsTarget(done, rewards, gamma, n_steps, q_stpot_atpot, AL_alpha, gap, N, B) ==
    LET gd == Pow(gamma.den, n_steps)
        T == NActions * N * gd
        gap_n == Repeat(gap, B, N)
    IN  Eval([r \in 0 .. (N * B - 1) |->
                Where(done[r], rewards[r] * T,
                      rewards[r] * T + Pow(gamma.num, n_steps) * N * q_stpot_atpot[r])
                - AL_alpha * gd * gap_n[r]])

\* A slip in PerItem: x.reshape([batch_size, iqn_n, 1]) with no transpose.
PerItemNoTranspose(x, N, B) == Reshape(x, B, N)

\* x.reshape([iqn_n, batch_size, 1]).transpose(0, 1): (batch_size, iqn_n, 1).
PerItem(x, N, B) == Transpose(Reshape(x, N, B), N, B)

\* TD_Error = outputs_target[:, :, None, :] - outputs[:, None, :, :].
TD_Error(outputs_target, outputs, N, B) ==
    Eval([b \in 0 .. (B - 1) |-> [i \in 0 .. (N - 1) |-> [j \in 0 .. (N - 1) |->
        outputs_target[b][i] - outputs[b][j]]]])

\* The Huber loss of one error td (a numerator over T), as a numerator over 2*T*T.
Huber(td, kappa, T) ==
    Where(Abs(td) <= kappa * T, td * td, kappa * T * (2 * Abs(td) - kappa * T))

\* tau reshaped to (iqn_n, batch_size, 1), transposed, and expanded along a new
\* axis 1 to (batch_size, iqn_n, iqn_n, 1).
TauExpand(tau, N, B) ==
    LET t == PerItem(tau, N, B)
    IN  Eval([b \in 0 .. (B - 1) |-> [i \in 0 .. (N - 1) |-> [j \in 0 .. (N - 1) |-> t[b][j]]]])

\* torch.where(TD_Error < 0, 1 - tau, tau) * loss, one element, as a numerator
\* over 2*T*T*TauDen.
Pinball(td, tau, kappa, T) == Where(td < 0, TauDen - tau, tau) * Huber(td, kappa, T)

\* loss / iqn_kappa, torch.sum(loss, dim=2), torch.mean(loss, dim=1), loss[:, 0]:
\* one loss per batch item.  The division by iqn_kappa and the mean's division
\* by iqn_n go into the denominator.
PerItemLoss(TD, tau_x, kappa, T, N, B) ==
    Eval([b \in 0 .. (B - 1) |->
        [num |-> SumTo([i \in 0 .. (N - 1) |->
                     SumTo([j \in 0 .. (N - 1) |-> Pinball(TD[b][i][j], tau_x[b][i][j], kappa, T)], N)], N),
         den |-> 2 * T * T * TauDen * kappa * N]])

\* torch.sum(is_weights * loss).
TotalLoss(is_weights, loss, B) ==
    [num |-> SumTo([b \in 0 .. (B - 1) |-> is_weights[b] * loss[b].num], B),
     den |-> loss[0].den]

\* One entry of bufferLog.
Event(op, idxs, priorities) == [op |-> op, idxs |-> idxs, priorities |-> priorities]

\* A slip in Priorities: the importance-weighted losses are reported.
PrioritiesWeighted(is_weights, loss) ==
    Eval([k \in DOMAIN loss |-> [num |-> is_weights[k] * loss[k].num, den |-> loss[k].den]])

\* The priorities handed to buffer.update: loss.detach().cpu().numpy().
Priorities(is_weights, loss) == loss

\* Lines 160-185: buffer.sample, zero_grad, the batch's tensors and their
\* copies along the quantile axis.  repeat refuses a negative count.
TrainSample(idxs) ==
    /\ pc = "idle"
    /\ cfg.iqn_n >= 0
    /\ LET B == cfg.batch_size
           N == cfg.iqn_n
           batch == Eval([k \in 0 .. (B - 1) |-> ReplayMemory[idxs[k]]])
           actions == Eval([k \in 0 .. (B - 1) |-> batch[k].action])
       IN  frame' = [stage |-> "sampled",
                     batch |-> batch,
                     idxs |-> idxs,
                     is_weights |-> [k \in 0 .. (B - 1) |-> ImportanceWeight(idxs[k])],
                     actions |-> actions,
                     rewards |-> Repeat([k \in 0 .. (B - 1) |-> batch[k].reward], B, N),
                     done |-> Repeat([k \in 0 .. (B - 1) |-> batch[k].done], B, N),
                     actions_n |-> Repeat(actions, B, N)]
    /\ bufferLog' = <<Event("sample", idxs, <<>>)>>
    /\ entry' = model.w
    /\ evalLast' = NoEval
    /\ evalPrev' = NoEval
    /\ pc' = "sampled"
    /\ UNCHANGED <<cfg, model, model2, fwd>>

\* The batch's next-state tensors.
NextImg == [k \in 0 .. (cfg.batch_size - 1) |-> frame.batch[k].next_state_img]

NextFloat == [k \in 0 .. (cfg.batch_size - 1) |-> frame.batch[k].next_state_float]

StateImg == [k \in 0 .. (cfg.batch_size - 1) |-> frame.batch[k].state_img]

StateFloat == [k \in 0 .. (cfg.batch_size - 1) |-> frame.batch[k].state_float]

\* Lines 186-199: the online network selects the next action of each item.
TrainSelect(z, seed) ==
    /\ pc = "sampled"
    /\ LET B == cfg.batch_size
           N == cfg.iqn_n
           net == [model EXCEPT !.noise = reset_noise(z)]
           out == forward(net, NextImg, NextFloat, B, N, None, seed)
           q_stpo_alla == QuantileMean(out.Q, N, B)
           a_tpo == Eval([b \in 0 .. (B - 1) |-> ArgMax(q_stpo_alla[b], NActions)])
       IN  /\ model' = net
           /\ fwd' = out
           /\ frame' = [stage |-> "selected"] @@ [a_tpo |-> Repeat(a_tpo, B, N)] @@ frame
    /\ pc' = "selected"
    /\ UNCHANGED <<cfg, model2, bufferLog, entry, evalLast, evalPrev>>

\* A slip in TargetNet: the target is synchronized from the online network.
TargetNetSynced(z) == [w |-> model.w, noise |-> reset_noise(z)]

\* self.model2.reset_noise(): the target network as its forward pass runs.
TargetNet(z) == [model2 EXCEPT !.noise = reset_noise(z)]

\* Lines 201-215: the target network evaluates the next state at its own tau.
TrainTarget(z, seed) ==
    /\ pc = "selected"
    /\ LET B == cfg.batch_size
           N == cfg.iqn_n
           net == TargetNet(z)
           out == forward(net, NextImg, NextFloat, B, N, None, seed)
           q_stpot_alla == QuantileMean(out.Q, N, B)
       IN  /\ model2' = net
           /\ fwd' = out
           /\ frame' = [stage |-> "targeted"]
                       @@ [tau |-> out.tau,
                           q_stpot_atpot |-> Gather(out.Q, frame.a_tpo, B * N),
                           q_stpot_alla |-> q_stpot_alla,
                           v_stpot |-> ValueOf(q_stpot_alla, B),
                           q_stpot_a |-> Gather(q_stpot_alla, frame.actions, B)]
                       @@ frame
    /\ pc' = "targeted"
    /\ UNCHANGED <<cfg, model, bufferLog, entry, evalLast, evalPrev>>

\* Lines 220-267: the online network predicts the current state at the target's
\* tau; the target, the errors and the loss.
TrainPredict(z) ==
    /\ pc = "targeted"
    /\ LET B == cfg.batch_size
           N == cfg.iqn_n
           T == TScale
           net == [model EXCEPT !.noise = reset_noise(z)]
           out == forward(net, StateImg, StateFloat, B, N, frame.tau, 0)
           outputs == out.Q
           q_s_alla == QuantileMean(outputs, N, B)
           q_s_a == Gather(q_s_alla, frame.actions, B)
           v_s == ValueOf(q_s_alla, B)
           gap == PalGap(v_s, q_s_a, frame.v_stpot, frame.q_stpot_a, B)
           outputs_target ==
               PerItem(OutputsTarget(frame.done, frame.rewards, cfg.gamma, cfg.n_steps,
                                     frame.q_stpot_atpot, cfg.AL_alpha, gap, N, B), N, B)
           taken == Gather(outputs, frame.actions_n, B * N)
           outputs_taken == PerItem(Eval([r \in 0 .. (B * N - 1) |->
                                        taken[r] * N * Pow(cfg.gamma.den, cfg.n_steps)]), N, B)
           TD == TD_Error(outputs_target, outputs_taken, N, B)
           tau_x == TauExpand(out.tau, N, B)
           loss == PerItemLoss(TD, tau_x, cfg.iqn_kappa, T, N, B)
       IN  /\ model' = net
           /\ fwd' = out
           /\ frame' = [stage |-> "predicted"]
                       @@ [outputs |-> outputs, tau_online |-> out.tau, q_s_alla |-> q_s_alla,
                           q_s_a |-> q_s_a, v_s |-> v_s,
                           outputs_target |-> outputs_target,
                           mean_q_value |-> [a \in Actions |->
                               SumTo([r \in 0 .. (B * N - 1) |-> outputs[r][a]], B * N)],
                           outputs_taken |-> outputs_taken, TD_Error |-> TD, tau_x |-> tau_x,
                           loss |-> loss, total_loss |-> TotalLoss(frame.is_weights, loss, B)]
                       @@ frame
    /\ pc' = "predicted"
    /\ UNCHANGED <<cfg, model2, bufferLog, entry, evalLast, evalPrev>>

\* scaler.step(self.optimizer): what the step leaves in the online network's
\* means and noise scales.
OptimizerStep(net, w) == [net EXCEPT !.w = w]

\* Lines 269-271: backward, the optimizer step, the scaler's update.
TrainStep(w) ==
    /\ pc = "predicted"
    /\ model' = OptimizerStep(model, w)
    /\ bufferLog' = Append(bufferLog, Event("step", <<>>, <<>>))
    /\ frame' = [frame EXCEPT !.stage = "stepped"]
    /\ pc' = "stepped"
    /\ UNCHANGED <<cfg, model2, fwd, entry, evalLast, evalPrev>>

\* Lines 272-273: buffer.update with the sampled indices and the per-item
\* losses, then the return.
TrainUpdate ==
    /\ pc = "stepped"
    /\ bufferLog' = Append(bufferLog,
                           Event("update", frame.idxs, Priorities(frame.is_weights, frame.loss)))
    /\ frame' = [frame EXCEPT !.stage = "returned"]
    /\ pc' = "returned"
    /\ UNCHANGED <<cfg, model, model2, fwd, entry, evalLast, evalPrev>>

\* buffer.sample raises: the exception leaves train_on_batch at its first line.
SampleRaises ==
    /\ pc = "idle"
    /\ bufferLog' = <<>>
    /\ entry' = model.w
    /\ evalLast' = NoEval
    /\ evalPrev' = NoEval
    /\ frame' = [stage |-> "raised"]
    /\ pc' = "raised"
    /\ UNCHANGED <<cfg, model, model2, fwd>>

\* The next operation of the running call raises (a forward pass, backward, the
\* optimizer step, buffer.update): train_on_batch has no handler, so the
\* exception propagates with everything the call did so far left in place.
Raise ==
    /\ pc \in {"sampled", "selected", "targeted", "predicted", "stepped"}
    /\ frame' = [stage |-> "raised"]
    /\ fwd' = NoFwd
    /\ pc' = "raised"
    /\ UNCHANGED <<cfg, model, model2, bufferLog, entry, evalLast, evalPrev>>

\* The caller goes on after train_on_batch returned or raised: the call's
\* locals are gone.
CallerContinues ==
    /\ pc \in {"returned", "raised"}
    /\ frame' = NoFrame
    /\ fwd' = NoFwd
    /\ bufferLog' = <<>>
    /\ entry' = model.w
    /\ pc' = "idle"
    /\ UNCHANGED <<cfg, model, model2, evalLast, evalPrev>>

(***************************************************************************)
(* Trainer.get_exploration_action.                                         *)
(***************************************************************************)
\* What random.random() can return, in percent.
RandomDraws == {20, 70}

\* The images and features the caller can pass.
ImgInputs == {0, 1}

FloatInputs == {0}

\* q_values: the online network's iqn_k rows averaged over the quantile axis
\* (.mean(axis=0)), as numerators over n_actions * iqn_k.
QValues(Q, K) == [a \in Actions |-> SumTo([j \in 0 .. (K - 1) |-> Q[j][a]], K)]

\* The closing if of get_exploration_action: (action, greedy flag, np.max(q_values)).
ChooseAction(q_values, epsilon, u, ra) ==
    IF u < epsilon
    THEN [action |-> ra, greedy |-> FALSE, max_q |-> MaxTo(q_values, NActions)]
    ELSE [action |-> ArgMax(q_values, NActions), greedy |-> TRUE, max_q |-> MaxTo(q_values, NActions)]

\* A slip in ResetsNoise: the noise is reset in evaluation mode too.
ResetsNoiseAlways(epsilon) == epsilon >= 0

\* Whether get_exploration_action resets the online network's noise.
ResetsNoise(epsilon) == epsilon > 0

\* get_exploration_action(img_inputs, float_inputs).  z and seed are where the
\* noise and tau generators stand, u is random.random(), ra is
\* random.randrange(0, n_actions).
get_exploration_action(img_inputs, float_inputs, z, seed, u, ra) ==
    /\ pc = "idle"
    /\ LET net == IF ResetsNoise(cfg.epsilon) THEN [model EXCEPT !.noise = reset_noise(z)] ELSE model
           out == forward(net, One(img_inputs), One(float_inputs), 1, cfg.iqn_k, None, seed)
           q_values == QValues(out.Q, cfg.iqn_k)
       IN  /\ model' = net
           /\ fwd' = out
           /\ evalLast' = [called |-> TRUE, img_inputs |-> img_inputs, float_inputs |-> float_inputs,
                           noise_before |-> model.noise, tau |-> out.tau,
                           result |-> ChooseAction(q_values, cfg.epsilon, u, ra)]
           /\ evalPrev' = IF ResetsNoise(cfg.epsilon) THEN NoEval ELSE evalLast
    /\ UNCHANGED <<cfg, model2, pc, frame, bufferLog, entry>>

(***************************************************************************)
(* The specifications.                                                     *)
(***************************************************************************)
\* What buffer.sample(batch_size) can return as indices: batch_size indices
\* into the memory, from any start, either all the same or consecutive.
SampleIdxs ==
    { [k \in 0 .. (cfg.batch_size - 1) |-> 1 + ((start + k * stride) % Len(ReplayMemory))] :
          start \in 0 .. (Len(ReplayMemory) - 1), stride \in {0, 1} }

Next ==
    \/ \E idxs \in SampleIdxs : TrainSample(idxs)
    \/ \E z \in NoiseSeeds, seed \in TauSeeds : TrainSelect(z, seed)
    \/ \E z \in NoiseSeeds, seed \in TauSeeds : TrainTarget(z, seed)
    \/ \E z \in NoiseSeeds : TrainPredict(z)
    \/ \E w \in ParamSet : TrainStep(w)
    \/ TrainUpdate
    \/ SampleRaises
    \/ Raise
    \/ CallerContinues
    \/ \E img \in ImgInputs, flt \in FloatInputs, seed \in TauSeeds, u \in RandomDraws :
          \E z \in IF ResetsNoise(cfg.epsilon) THEN NoiseSeeds ELSE {0},
             ra \in IF u < cfg.epsilon THEN Actions ELSE {0} :
             get_exploration_action(img, flt, z, seed, u, ra)

\* A constructed Trainer and the calls made on it.
Spec == Init /\ [][Next]_vars

\* The arguments a caller can hand to Trainer.__init__.
CtorArgs ==
    [batch_size : {BatchSize}, iqn_k : {-1, 0, IqnK}, iqn_n : {-1, 0, IqnN},
     iqn_kappa : {-1, 0, 1}, epsilon : {0}, gamma : {[num |-> 1, den |-> 2]},
     n_steps : {1, 2}, AL_alpha : {1}]

InitCtor ==
    /\ cfg = NoCfg
    /\ model = [w |-> Weights(0), noise |-> reset_noise(0)]
    /\ model2 = [w |-> Weights(1), noise |-> reset_noise(0)]
    /\ pc = "new"
    /\ frame = NoFrame
    /\ fwd = NoFwd
    /\ bufferLog = <<>>
    /\ entry = model.w
    /\ evalLast = NoEval
    /\ evalPrev = NoEval

NextCtor ==
    \/ \E c \in CtorArgs :
          Trainer__init__(c.batch_size, c.iqn_k, c.iqn_n, c.iqn_kappa, c.epsilon, c.gamma,
                          c.n_steps, c.AL_alpha)
    \/ \E idxs \in SampleIdxs : TrainSample(idxs)
    \/ SampleRaises
    \/ Raise
    \/ CallerContinues

\* Construction of a Trainer from any arguments, and the start of a training step.
SpecCtor == InitCtor /\ [][NextCtor]_vars

(***************************************************************************)
(* The properties checked.                                                 *)
(***************************************************************************)
\* The running train_on_batch call has built its target and its loss.
HasTargets == frame.stage \in {"predicted", "stepped", "returned"}

Items == 0 .. (cfg.batch_size - 1)

Quantiles == 0 .. (cfg.iqn_n - 1)

\* The flat row of batch item b at quantile index j.
Row(b, j) == j * cfg.batch_size + b

\* The PAL correction of item b, AL_alpha * min(v_cur - q_cur_taken,
\* v_next - q_next_taken), as a numerator over TScale.
Correction(b) ==
    cfg.AL_alpha * Pow(cfg.gamma.den, cfg.n_steps)
    * Min2(frame.v_s[b] - frame.q_s_a[b], frame.v_stpot[b] - frame.q_stpot_a[b])

\* The base target of item b at quantile index j, as a numerator over TScale.
BaseTarget(b, j) ==
    IF frame.batch[b].done
    THEN frame.batch[b].reward * TScale
    ELSE frame.batch[b].reward * TScale
         + Pow(cfg.gamma.num, cfg.n_steps) * cfg.iqn_n * frame.q_stpot_atpot[Row(b, j)]

\* C1: in every row of every Agent.forward call, Q[a] = V + A[a] - mean(A) for
\* every action a, so the sum over the actions of Q[a] - V is zero and the mean
\* of Q over the actions is V.
C1_DuelingDecomposition ==
    \A r \in DOMAIN fwd.Q :
        /\ \A a \in Actions :
              fwd.Q[r][a] = NActions * fwd.V[r] + NActions * fwd.A[r][a] - SumTo(fwd.A[r], NActions)
        /\ SumTo([a \in Actions |-> fwd.Q[r][a] - NActions * fwd.V[r]], NActions) = 0
        /\ SumTo(fwd.Q[r], NActions) = NActions * (NActions * fwd.V[r])

\* A forward call has run whose advantages differ between two actions and whose
\* value is not zero.
C1_Witness ==
    \E r \in DOMAIN fwd.Q : \E a, c \in Actions :
        /\ fwd.A[r][a] # fwd.A[r][c]
        /\ SumTo(fwd.A[r], NActions) # 0
        /\ fwd.V[r] # 0

\* Other discounts, horizons and shifts of q_next_at_a' to compare a target with.
GammaAlts == {[num |-> 1, den |-> 1], [num |-> 3, den |-> 4]}

NStepsAlts == {1, 3}

QShifts == {-1, 2}

\* C2: the target of every quantile row of a done item is reward minus the PAL
\* correction, and stays the same under another gamma, n_steps or q_next_at_a';
\* the target of every row of an item that is not done is reward +
\* gamma^n_steps * q_next_at_a' minus the same correction.
C2_TargetOfDoneAndNotDone ==
    HasTargets =>
        /\ \A b \in Items, j \in Quantiles :
              frame.outputs_target[b][j] = BaseTarget(b, j) - Correction(b)
        /\ \A b \in Items, j \in Quantiles :
              frame.batch[b].done => frame.outputs_target[b][j] = frame.batch[b].reward * TScale - Correction(b)
        /\ \A g \in GammaAlts, n \in NStepsAlts, d \in QShifts :
              LET gap == PalGap(frame.v_s, frame.q_s_a, frame.v_stpot, frame.q_stpot_a, cfg.batch_size)
                  q == Eval([r \in DOMAIN frame.q_stpot_atpot |-> frame.q_stpot_atpot[r] + d])
                  alt == PerItem(OutputsTarget(frame.done, frame.rewards, g, n, q, cfg.AL_alpha,
                                               gap, cfg.iqn_n, cfg.batch_size),
                                 cfg.iqn_n, cfg.batch_size)
                  TAlt == NActions * cfg.iqn_n * Pow(g.den, n)
              IN  \A b \in Items, j \in Quantiles :
                      frame.batch[b].done => alt[b][j] * TScale = frame.outputs_target[b][j] * TAlt

\* A batch with a done item whose q_next_at_a' is not zero, and an item that is
\* not done, has its targets.
C2_Witness ==
    /\ HasTargets
    /\ \E b, c \in Items :
          /\ frame.batch[b].done
          /\ frame.q_stpot_atpot[Row(b, 0)] # 0
          /\ ~frame.batch[c].done
          /\ frame.q_stpot_atpot[Row(c, 0)] # 0

\* v is the largest entry of q, and taken is q's entry at `action`.
MaxAndTaken(q, v, taken, action) ==
    /\ \A a \in Actions : q[a] <= v
    /\ \E a \in Actions : q[a] = v
    /\ taken = q[action]

\* C3: v_cur and v_next are the maxima of the quantile-averaged vectors that
\* q_cur_taken and q_next_taken are read from, so both gaps are >= 0, and with
\* AL_alpha >= 0 the target of every quantile row is <= its base target.
C3_CorrectionNeverIncreases ==
    HasTargets =>
        \A b \in Items :
            /\ MaxAndTaken(frame.q_s_alla[b], frame.v_s[b], frame.q_s_a[b], frame.batch[b].action)
            /\ MaxAndTaken(frame.q_stpot_alla[b], frame.v_stpot[b], frame.q_stpot_a[b],
                           frame.batch[b].action)
            /\ frame.v_s[b] - frame.q_s_a[b] >= 0
            /\ frame.v_stpot[b] - frame.q_stpot_a[b] >= 0
            /\ cfg.AL_alpha >= 0 =>
                  \A j \in Quantiles : frame.outputs_target[b][j] <= BaseTarget(b, j)

\* With AL_alpha > 0, an item whose two gaps are both positive has its target,
\* strictly below the base target.
C3_Witness ==
    /\ HasTargets
    /\ cfg.AL_alpha > 0
    /\ \E b \in Items :
          /\ frame.v_s[b] - frame.q_s_a[b] > 0
          /\ frame.v_stpot[b] - frame.q_stpot_a[b] > 0
          /\ frame.outputs_target[b][0] < BaseTarget(b, 0)

\* A loss that is a number >= 0 (a zero denominator is no number).
NonNegative(l) == (l.den > 0 /\ l.num >= 0) \/ (l.den < 0 /\ l.num <= 0)

\* A loss that is the number 0.
IsZero(l) == l.den # 0 /\ l.num = 0

\* C4: the per-item loss is non-negative whatever the targets, the predictions,
\* tau in [0, 1) and kappa are, and is zero when every pairwise error of the
\* item is zero.
C4_LossNonNegative ==
    HasTargets =>
        \A b \in Items :
            /\ NonNegative(frame.loss[b])
            /\ (\A i, j \in Quantiles : frame.TD_Error[b][i][j] = 0) => IsZero(frame.loss[b])

\* The loss of item k from its targets, its predictions and the flat tau, as a
\* numerator over the per-item loss denominator.
LossOfItem(k) ==
    SumTo([i \in Quantiles |->
              SumTo([j \in Quantiles |->
                        Pinball(frame.outputs_target[k][i] - frame.outputs_taken[k][j],
                                frame.tau[Row(k, j)], cfg.iqn_kappa, TScale)], cfg.iqn_n)],
          cfg.iqn_n)

\* C5: a train_on_batch call that completes has called buffer.sample once, then
\* the optimizer step once, then buffer.update once; update got the indices of
\* sample in their order, the priority of the k-th index is the loss of the k-th
\* item, without its importance weight, and the total loss is the sum of
\* importance_weight[k] * per_item_loss[k].
C5_SampleStepUpdate ==
    pc = "returned" =>
        /\ Len(bufferLog) = 3
        /\ bufferLog[1].op = "sample"
        /\ bufferLog[2].op = "step"
        /\ bufferLog[3].op = "update"
        /\ bufferLog[3].idxs = bufferLog[1].idxs
        /\ DOMAIN bufferLog[3].priorities = Items
        /\ \A k \in Items :
              /\ frame.batch[k] = ReplayMemory[bufferLog[1].idxs[k]]
              /\ bufferLog[3].priorities[k].num = LossOfItem(k)
              /\ bufferLog[3].priorities[k].den = frame.loss[k].den
        /\ frame.total_loss.num
               = SumTo([k \in Items |-> ImportanceWeight(bufferLog[1].idxs[k]) * LossOfItem(k)],
                       cfg.batch_size)

\* A call has completed on a batch of two different indices, with an item whose
\* importance weight is not 1 and whose loss is not 0.
C5_Witness ==
    /\ pc = "returned"
    /\ bufferLog[1].idxs[0] # bufferLog[1].idxs[1]
    /\ \E k \in Items : frame.is_weights[k] # 1 /\ frame.loss[k].num # 0

\* C6: when an operation inside train_on_batch raises, the online network's
\* parameters are those it had before the call and no priority was updated.
C6_FailedBatchNotApplied ==
    pc = "raised" =>
        /\ model.w = entry
        /\ \A e \in 1 .. Len(bufferLog) : bufferLog[e].op # "update"

\* C7 as claimed: the online network, cached noise included, changes only at the
\* optimizer step, and the target network, cached noise included, never changes.
C7_OnlyOptimizerStepMutates ==
    [][ /\ model' # model => (pc = "predicted" /\ pc' = "stepped")
        /\ model2' = model2 ]_vars

\* C7 as amended: the means and noise scales of the online network change only
\* at the optimizer step and those of the target network never change; the
\* online network's cached noise is redrawn only by the two online passes of
\* train_on_batch and by get_exploration_action with epsilon > 0, the target
\* network's only before the target pass of train_on_batch.
C7_WeightsOnlyAtOptimizerStep ==
    [][ /\ model.w' # model.w => (pc = "predicted" /\ pc' = "stepped")
        /\ model2.w' = model2.w
        /\ model.noise' # model.noise =>
              \/ pc = "sampled" /\ pc' = "selected"
              \/ pc = "targeted" /\ pc' = "predicted"
              \/ pc = "idle" /\ pc' = "idle" /\ cfg.epsilon > 0
        /\ model2.noise' # model2.noise => (pc = "selected" /\ pc' = "targeted") ]_vars

\* The optimizer step has changed the online means while the target network has
\* drawn fresh noise.
C7_Witness ==
    /\ pc = "stepped"
    /\ model.w # entry
    /\ model2.noise # reset_noise(0)

C9_InvalidConfigRejected ==
    pc # "new" => (cfg.iqn_n > 0 /\ cfg.iqn_k > 0 /\ cfg.iqn_kappa > 0)

\* C10: the tau sampled by the target pass is the tau the online pass was given
\* and returned; the loss element of target[b,i] - pred[b,j] is weighted with
\* tau[j * batch_size + b]; and the reward, done flag, taken action and selected
\* next action of flat row j * batch_size + b are those of item b.
C10_TauAndRowsOfItem ==
    HasTargets =>
        /\ frame.tau_online = frame.tau
        /\ \A b \in Items, i, j \in Quantiles :
              /\ frame.tau_x[b][i][j] = frame.tau[Row(b, j)]
              /\ frame.TD_Error[b][i][j]
                     = frame.outputs_target[b][i]
                       - frame.outputs[Row(b, j)][frame.batch[b].action]
                         * cfg.iqn_n * Pow(cfg.gamma.den, cfg.n_steps)
        /\ \A b \in Items, j \in Quantiles :
              /\ frame.rewards[Row(b, j)] = frame.batch[b].reward
              /\ frame.done[Row(b, j)] = frame.batch[b].done
              /\ frame.actions_n[Row(b, j)] = frame.batch[b].action
              /\ frame.a_tpo[Row(b, j)] = frame.a_tpo[b]
              /\ frame.outputs_target[b][j] = BaseTarget(b, j) - Correction(b)
        /\ \A b \in Items :
              frame.loss[b].num
                  = SumTo([i \in Quantiles |->
                        SumTo([j \in Quantiles |->
                            (IF frame.TD_Error[b][i][j] < 0
                             THEN TauDen - frame.tau[Row(b, j)] ELSE frame.tau[Row(b, j)])
                            * Huber(frame.TD_Error[b][i][j], cfg.iqn_kappa, TScale)], cfg.iqn_n)],
                        cfg.iqn_n)

\* The loss has been built on a batch of two different items whose tau differs
\* between the items and between the quantile indices.
C10_Witness ==
    /\ HasTargets
    /\ frame.batch[0] # frame.batch[1]
    /\ frame.tau[Row(0, 0)] # frame.tau[Row(1, 0)]
    /\ frame.tau[Row(0, 0)] # frame.tau[Row(0, 1)]
    /\ frame.loss[0].num # 0

====
